---- MODULE Spec2Model ----
(***************************************************************************)
(* The two front ends of the Triskell assistant as one state machine.      *)
(*                                                                         *)
(*   react  : frontend/src/components/ChatComponent.jsx (the chat widget   *)
(*            and its FeedbackPanel)                                       *)
(*   static : app/static/script.js (the script-driven page)                *)
(*                                                                         *)
(* A session is one open page: Init picks the front end, and every action  *)
(* is one event handler, one network completion or one timer callback of   *)
(* that front end, run to completion (JavaScript is single threaded).      *)
(* The backend is the environment: each completion draws its outcome from  *)
(* a small set.  `event` records the last callback that ran, with the      *)
(* inputs it was given, so that a property can speak about "the step in    *)
(* which handler h ran on input x".                                        *)
(***************************************************************************)
EXTENDS Integers, Sequences, FiniteSets, TLC

\* ------------------------------------------------------------------ bounds

\* Date.now() ranges over 1..MaxClock.
MaxClock == 2
\* Chat sends, uploads and feedback submissions started in one session.
MaxOps == 2
\* Question/answer pairs in one /upload response.
MaxResponses == 2
\* Entries whose feedback form the user ever opens in one session.
MaxPanels == 1

\* ------------------------------------------------------------- JS helpers

\* obj.f of a JavaScript object: a missing property reads as `dflt`.
Get(obj, f, dflt) == IF f \in DOMAIN obj THEN obj[f] ELSE dflt

\* Truthiness of obj.f for a boolean property (missing reads as undefined).
Flag(obj, f) == f \in DOMAIN obj /\ obj[f] = TRUE

\* Truthiness of obj.f for a string property.
NonEmpty(obj, f) == f \in DOMAIN obj /\ obj[f] /= ""

\* a || b on strings.
Or(a, b) == IF a = "" THEN b ELSE a

\* A trim that knows the space character only.
Whitespace_SpaceOnly == {" "}

Whitespace == {" ", "\t", "\n"}

RECURSIVE TrimStart(_)
TrimStart(s) ==
  IF Len(s) > 0 /\ SubSeq(s, 1, 1) \in Whitespace THEN TrimStart(Tail(s)) ELSE s

RECURSIVE TrimEnd(_)
TrimEnd(s) ==
  IF Len(s) > 0 /\ SubSeq(s, Len(s), Len(s)) \in Whitespace
  THEN TrimEnd(SubSeq(s, 1, Len(s) - 1))
  ELSE s

\* String.prototype.trim
Trim(s) == TrimEnd(TrimStart(s))

\* seq with its i-th element removed.
Remove(seq, i) == SubSeq(seq, 1, i - 1) \o SubSeq(seq, i + 1, Len(seq))

\* The entries that `new` has after the first Len(old) ones.
Suffix(old, new) == SubSeq(new, Len(old) + 1, Len(new))

\* What n successive calls of Date.now() can return when the first returns
\* `from`: the clock may advance between two calls and never goes back.
RECURSIVE Readings(_, _)
Readings(n, from) ==
  IF n = 0 THEN {<<>>}
  ELSE IF n = 1 THEN {<<from>>}
  ELSE UNION {{<<from>> \o r : r \in Readings(n - 1, t)} : t \in from..MaxClock}

\* ------------------------------------------------------------ input sets

\* What the user can type in a text field.
Inputs == {" \t", " a "}

\* What the user can type in the text field of a feedback form.
FeedbackInputs == {"Better"}

\* Texts without a word.
BlankInputs == {" \t"}

\* Names of the files the user can pick or drop.
FileNames == {"OLD.XLS", "data.csv", "report.pdf"}

Null == [null |-> TRUE]
File(name) == [name |-> name]

\* Bodies of a 2xx answer of POST /chat.
ChatData ==
  { [response |-> "On track", context |-> <<"chunk">>],
    [response |-> "On track"],
    [response |-> ""] }

\* The k-th entry of the `responses` list of POST /upload; the backend
\* names a source for some entries only.
QA(k) ==
  IF k % 2 = 1
  THEN [question |-> "Q" \o ToString(k), response |-> "A" \o ToString(k),
        source |-> "sheet" \o ToString(k)]
  ELSE [question |-> "Q" \o ToString(k), response |-> "A" \o ToString(k)]

\* An entry for a row whose cells are empty.
EmptyQA == [question |-> "", response |-> ""]

\* The `responses` lists a backend answer can carry.
ResponseLists == {[k \in 1..n |-> QA(k)] : n \in 0..MaxResponses} \cup {<<EmptyQA>>}

\* Bodies of an answer of POST /upload.
UploadData ==
  {[status |-> "success", responses |-> r] : r \in ResponseLists}
    \cup { [status |-> "success"],
           [status |-> "error", message |-> "Bad file"],
           [status |-> "error"] }

\* ------------------------------------------------------------- constants

API_BASE_URL == "http://localhost:8000"
\* A chat URL that names the server only.
ChatUrl_NoPath == API_BASE_URL

ChatUrl == API_BASE_URL \o "/chat"
UploadUrl == API_BASE_URL \o "/upload"
FeedbackUrl == API_BASE_URL \o "/feedback"

WelcomeText ==
  "Hello, I'm Triskell Chatbot, your AI-powered assistant.\n\nYou can ask me questions or upload an Excel file for analysis."
ChatFallbackText == "I couldn't process that request."
ChatErrorText == "Sorry, there was an error processing your request."
UploadConfirmText ==
  "File processed successfully! Here are the responses to your questions:"
UploadIssuesText == "File processed with some issues."
UploadErrorText == "Error processing the file. Please try again."
UploadStatusText(name) == "Uploading and processing " \o name \o "..."
PanelErrorText == "Please enter at least one word before submitting."
FeedbackNotFoundText == "Error processing feedback. Please try again."
FeedbackThanksText == "Thank you for your feedback!"
FeedbackFailedText == "Failed to submit feedback. Please try again."

\* ------------------------------------------------------------------ state

VARIABLES
  frontend,            \* "react" or "static": the page this session runs
  userFile,            \* the file the user of this session picks or drops
  mounted,             \* the mount effect of the widget has run
  now,                 \* the value Date.now() returns
  ops,                 \* chat sends and uploads started so far
  event,               \* the last callback that ran, with its inputs
  pending,             \* requests in flight: the number of each in `requests`
                       \* and what its continuation captured
  requests,            \* every request issued so far, in order
  \* --- ChatComponent
  messages,            \* useState([])
  input,               \* useState('') ; chatModelInput.value on the static page
  isProcessing,        \* useState(false)
  selectedFile,        \* useState(null)
  feedbackVisibility,  \* useState({})
  panels,              \* the state of every rendered FeedbackPanel, by its place
  alerts,              \* every alert() shown so far, in order
  \* --- script.js
  chatContainer,       \* children of #chatContainer (the results of an upload)
  chatModelContainer,  \* children of #chatModelContainer (the chat bubbles)
  progressBar,         \* #uploadProgress: its hidden flag and the width of its bar
  notifications,       \* every showNotification call so far, in order
  timers,              \* setTimeout callbacks not yet run
  nodes,               \* DOM elements created so far (an element is known by its number)
  batches              \* upload completions that scheduled timers so far

vars ==
  <<frontend, userFile, mounted, now, ops, event, pending, requests,
    messages, input, isProcessing, selectedFile, feedbackVisibility,
    panels, alerts,
    chatContainer, chatModelContainer, progressBar, notifications, timers,
    nodes, batches>>

\* The state of the static page, which the widget never touches.
page ==
  <<chatContainer, chatModelContainer, progressBar, notifications, timers,
    nodes, batches>>

\* The state of the widget, which the static page never touches.
widget ==
  <<mounted, messages, isProcessing, selectedFile, feedbackVisibility, panels, alerts>>

\* The state of the feedback forms.
forms == <<feedbackVisibility, panels, alerts>>

net == <<pending, requests>>

session == <<frontend, userFile>>

EmptyMap == [x \in {} |-> FALSE]

\* useState('') twice: the state of a FeedbackPanel that has just mounted.
FreshPanel == [editedAnswer |-> "", error |-> ""]

Init ==
  /\ frontend \in {"react", "static"}
  /\ userFile \in {File(n) : n \in FileNames}
  /\ mounted = (frontend = "static")
  /\ now = 1
  /\ ops = 0
  /\ event = [op |-> "init"]
  /\ pending = <<>>
  /\ requests = <<>>
  /\ messages = <<>>
  /\ input = ""
  /\ isProcessing = FALSE
  /\ selectedFile = Null
  /\ feedbackVisibility = EmptyMap
  /\ panels = [s \in {} |-> FreshPanel]
  /\ alerts = <<>>
  /\ chatContainer = <<>>
  /\ chatModelContainer = <<>>
  /\ progressBar = [hidden |-> TRUE, width |-> ""]
  /\ notifications = <<>>
  /\ timers = {}
  /\ nodes = 0
  /\ batches = 0

\* The system clock advances.  Only the widget reads it.
Tick ==
  /\ frontend = "react"
  /\ now < MaxClock
  /\ now' = now + 1
  /\ event' = [op |-> "tick"]
  /\ UNCHANGED <<session, mounted, ops, net, messages, input,
                 isProcessing, selectedFile, forms, page>>

\* ------------------------------------------------- ChatComponent (React)

\* The state every ChatComponent callback leaves alone.
ReactFrame == UNCHANGED <<session, mounted, page>>

\* useEffect(..., []): seeds the welcome message after the first render.
\* A mount effect that seeds the welcome text as a message of the user.
WelcomeEffect_UserOrigin ==
  /\ frontend = "react"
  /\ ~mounted
  /\ mounted' = TRUE
  /\ messages' = << [text |-> WelcomeText, isUser |-> TRUE] >>
  /\ event' = [op |-> "welcomeEffect"]
  /\ UNCHANGED <<session, now, ops, net, input, isProcessing,
                 selectedFile, forms, page>>

WelcomeEffect ==
  /\ frontend = "react"
  /\ ~mounted
  /\ mounted' = TRUE
  /\ messages' = << [text |-> WelcomeText, isUser |-> FALSE] >>
  /\ event' = [op |-> "welcomeEffect"]
  /\ UNCHANGED <<session, now, ops, net, input, isProcessing,
                 selectedFile, forms, page>>

\* <MessageInput onChange={(e) => setInput(e.target.value)} disabled={isProcessing}>
SetInput(v) ==
  /\ frontend = "react"
  /\ mounted
  /\ ~isProcessing
  /\ input' = v
  /\ event' = [op |-> "setInput"]
  /\ UNCHANGED <<now, ops, net, messages, isProcessing, selectedFile, forms>>
  /\ ReactFrame

\* handleFileChange: `files` is e.target.files, empty or one file.  The
\* accept attribute of the input only filters the file dialog; the handler
\* itself takes whatever file the change event carries.
\* A change handler that forgets the selection when the event has no file.
handleFileChange_ClearOnEmpty(files) ==
  /\ frontend = "react"
  /\ mounted
  /\ selectedFile' = IF Len(files) > 0 THEN files[1] ELSE Null
  /\ event' = [op |-> "handleFileChange", files |-> files]
  /\ UNCHANGED <<now, ops, net, messages, input, isProcessing, forms>>
  /\ ReactFrame

handleFileChange(files) ==
  /\ frontend = "react"
  /\ mounted
  /\ selectedFile' = IF Len(files) > 0 THEN files[1] ELSE selectedFile
  /\ event' = [op |-> "handleFileChange", files |-> files]
  /\ UNCHANGED <<now, ops, net, messages, input, isProcessing, forms>>
  /\ ReactFrame

\* sendMessage, from its first line to the await.
sendMessage ==
  /\ event' = [op |-> "sendMessage", input |-> input]
  /\ IF Trim(input) = ""
     THEN UNCHANGED <<ops, net, messages, input, isProcessing>>
     ELSE LET userMessage == Trim(input)
          IN  /\ ops < MaxOps
              /\ ops' = ops + 1
              /\ messages' = Append(messages, [text |-> userMessage, isUser |-> TRUE])
              /\ input' = ""
              /\ isProcessing' = TRUE
              /\ requests' = Append(requests,
                                    [url |-> ChatUrl, body |-> [message |-> userMessage]])
              /\ pending' = Append(pending, [url |-> ChatUrl, seq |-> Len(requests) + 1,
                                            message |-> userMessage])
  /\ UNCHANGED <<now, selectedFile, forms>>
  /\ ReactFrame

\* <SendButton onClick={sendMessage} disabled={isProcessing || !input.trim()}>
ClickSend ==
  /\ frontend = "react"
  /\ mounted
  /\ ~(isProcessing \/ Trim(input) = "")
  /\ sendMessage

\* onKeyPress={(e) => e.key === 'Enter' && !isProcessing && sendMessage()}
PressEnter ==
  /\ frontend = "react"
  /\ mounted
  /\ ~isProcessing
  /\ sendMessage

\* The render condition of the feedback control of a regular message.
FeedbackOffered(msg) ==
  /\ ~Flag(msg, "isQAContainer")
  /\ ~msg.isUser
  /\ ~Flag(msg, "downloadOnly")
  /\ NonEmpty(msg, "id")

\* The places of the conversation under which a FeedbackPanel can be
\* rendered: <<k, 0>> for the k-th message, <<k, j>> for the j-th item of
\* the k-th message.
PanelSlots(msgs) ==
  {<<k, 0>> : k \in {n \in 1..Len(msgs) : FeedbackOffered(msgs[n])}}
    \cup UNION {{<<k, j>> : j \in 1..Len(msgs[k].qaItems)} :
                k \in {n \in 1..Len(msgs) : Flag(msgs[n], "isQAContainer")}}

\* The messageId prop of the panel at a place.
SlotId(msgs, s) == IF s[2] = 0 THEN msgs[s[1]].id ELSE msgs[s[1]].qaItems[s[2]].id

\* The panels after a render of the conversation `msgs` under the
\* visibility map `vis`: a panel is rendered where feedbackVisibility[id]
\* is truthy; one that stays rendered keeps its state, one that appears
\* starts fresh and one that disappears loses its state.
Render(msgs, vis) ==
  [s \in {x \in PanelSlots(msgs) : Get(vis, SlotId(msgs, x), FALSE)} |->
     IF s \in DOMAIN panels THEN panels[s] ELSE FreshPanel]

\* A continuation whose catch block logs the error and appends nothing.
ChatAppended_SwallowError(req, out, t) ==
  IF out.ok
  THEN << [id |-> ToString(t),
           text |-> Or(Get(out.data, "response", ""), ChatFallbackText),
           isUser |-> FALSE,
           question |-> req.message,
           context |-> Get(out.data, "context", <<>>)] >>
  ELSE <<>>

\* What the continuation of sendMessage appends for the request `req`
\* settled as `out`, Date.now() returning t.
ChatAppended(req, out, t) ==
  IF out.ok
  THEN << [id |-> ToString(t),
           text |-> Or(Get(out.data, "response", ""), ChatFallbackText),
           isUser |-> FALSE,
           question |-> req.message,
           context |-> Get(out.data, "context", <<>>)] >>
  ELSE << [id |-> ToString(t), text |-> ChatErrorText, isUser |-> FALSE] >>

\* sendMessage after the await: `out` is how axios.post settled, a 2xx
\* answer with a body or a rejection (transport failure, non-2xx status).
ChatSettled(i, out) ==
  LET req == pending[i]
  IN  /\ frontend = "react"
      /\ req.url = ChatUrl
      /\ messages' = messages \o ChatAppended(req, out, now)
      /\ panels' = Render(messages', feedbackVisibility)
      /\ isProcessing' = FALSE
      /\ pending' = Remove(pending, i)
      /\ event' = [op |-> "chatSettled", request |-> req, outcome |-> out]
      /\ UNCHANGED <<now, ops, requests, input, selectedFile, feedbackVisibility, alerts>>
      /\ ReactFrame

\* A Process File button that stays enabled while a request is pending.
uploadFile_WhileProcessing ==
  /\ frontend = "react"
  /\ mounted
  /\ selectedFile /= Null
  /\ ops < MaxOps
  /\ ops' = ops + 1
  /\ isProcessing' = TRUE
  /\ messages' = Append(messages,
                        [text |-> UploadStatusText(selectedFile.name), isUser |-> TRUE])
  /\ requests' = Append(requests, [url |-> UploadUrl, body |-> [file |-> selectedFile]])
  /\ pending' = Append(pending, [url |-> UploadUrl, seq |-> Len(requests) + 1,
                                file |-> selectedFile])
  /\ event' = [op |-> "uploadFile", file |-> selectedFile]
  /\ UNCHANGED <<now, input, selectedFile, forms>>
  /\ ReactFrame

\* uploadFile, from its first line to the await.  The Process File button
\* is rendered only while a file is selected and is disabled while
\* isProcessing.
uploadFile ==
  /\ frontend = "react"
  /\ mounted
  /\ selectedFile /= Null
  /\ ~isProcessing
  /\ ops < MaxOps
  /\ ops' = ops + 1
  /\ isProcessing' = TRUE
  /\ messages' = Append(messages,
                        [text |-> UploadStatusText(selectedFile.name), isUser |-> TRUE])
  /\ requests' = Append(requests, [url |-> UploadUrl, body |-> [file |-> selectedFile]])
  /\ pending' = Append(pending, [url |-> UploadUrl, seq |-> Len(requests) + 1,
                                file |-> selectedFile])
  /\ event' = [op |-> "uploadFile", file |-> selectedFile]
  /\ UNCHANGED <<now, input, selectedFile, forms>>
  /\ ReactFrame

\* An item id made of the timestamp alone.
QAItemId_NoIndex(t, k) == "qa-item-" \o ToString(t)

\* The id of the k-th qaItem (k from 1; the code's index is k - 1).
QAItemId(t, k) == "qa-item-" \o ToString(t) \o "-" \o ToString(k - 1)

\* The qaItems built from the response list; ts[k] is what Date.now()
\* returned for the k-th item.
QAItems(responses, ts) ==
  [k \in 1..Len(responses) |->
     [id |-> QAItemId(ts[k], k),
      question |-> responses[k].question,
      answer |-> responses[k].response,
      source |-> Or(Get(responses[k], "source", ""), "unknown")]]

ConfirmMessage(t) ==
  [id |-> "file-" \o ToString(t), text |-> UploadConfirmText, isUser |-> FALSE]

QAMessage(t, responses, ts) ==
  [id |-> "qa-" \o ToString(t),
   isUser |-> FALSE,
   isQAContainer |-> TRUE,
   qaItems |-> QAItems(responses, ts)]

DownloadMessage ==
  [text |-> "", isUser |-> FALSE, showDownload |-> TRUE, downloadOnly |-> TRUE]

UploadErrorMessage == [text |-> UploadErrorText, isUser |-> FALSE]

\* A continuation that appends the download prompt before the batch.
UploadAppended_DownloadFirst(out, ts) ==
  IF ~out.ok
  THEN <<UploadErrorMessage>>
  ELSE IF out.data.status = "success"
  THEN IF "responses" \in DOMAIN out.data
       THEN << ConfirmMessage(ts[1]),
               DownloadMessage,
               QAMessage(ts[2], out.data.responses, SubSeq(ts, 3, Len(ts))) >>
       ELSE <<ConfirmMessage(ts[1]), UploadErrorMessage>>
  ELSE << [text |-> Or(Get(out.data, "message", ""), UploadIssuesText),
           isUser |-> FALSE] >>

\* What the continuation of uploadFile appends, and whether it reaches
\* setSelectedFile(null), for a settled request.  `ts` are the successive
\* readings of Date.now() it makes.
UploadAppended(out, ts) ==
  IF ~out.ok
  THEN <<UploadErrorMessage>>
  ELSE IF out.data.status = "success"
  THEN IF "responses" \in DOMAIN out.data
       THEN << ConfirmMessage(ts[1]),
               QAMessage(ts[2], out.data.responses, SubSeq(ts, 3, Len(ts))),
               DownloadMessage >>
       ELSE \* responses.map throws a TypeError after the confirmation was appended
            <<ConfirmMessage(ts[1]), UploadErrorMessage>>
  ELSE << [text |-> Or(Get(out.data, "message", ""), UploadIssuesText),
           isUser |-> FALSE] >>

\* The continuation runs to setSelectedFile(null) unless something threw.
UploadClearsFile(out) ==
  /\ out.ok
  /\ out.data.status = "success" => "responses" \in DOMAIN out.data

\* How many times the continuation calls Date.now().
UploadReadings(out) ==
  IF out.ok /\ out.data.status = "success"
  THEN 2 + Len(Get(out.data, "responses", <<>>))
  ELSE 0

\* uploadFile after the await.
UploadSettled(i, out) ==
  LET req == pending[i]
  IN  /\ frontend = "react"
      /\ req.url = UploadUrl
      /\ \E ts \in Readings(UploadReadings(out), now) :
           /\ messages' = messages \o UploadAppended(out, ts)
           /\ now' = IF Len(ts) > 0 THEN ts[Len(ts)] ELSE now
      /\ panels' = Render(messages', feedbackVisibility)
      /\ selectedFile' = IF UploadClearsFile(out) THEN Null ELSE selectedFile
      /\ isProcessing' = FALSE
      /\ pending' = Remove(pending, i)
      /\ event' = [op |-> "uploadSettled", request |-> req, outcome |-> out]
      /\ UNCHANGED <<ops, requests, input, feedbackVisibility, alerts>>
      /\ ReactFrame

\* feedbackVisibility[id], undefined reading as false.
Visible(id) == Get(feedbackVisibility, id, FALSE)

SetVisibility(id, v) == (id :> v) @@ feedbackVisibility

\* The user opens the forms of at most MaxPanels entries.
CanOpen(id) ==
  id \in DOMAIN feedbackVisibility \/ Cardinality(DOMAIN feedbackVisibility) < MaxPanels

FeedbackFrame ==
  UNCHANGED <<session, mounted, now, ops, net, messages, input,
              isProcessing, selectedFile, alerts, page>>

\* A control under the k-th message that flips the entry as the control
\* of a qaItem does.
ShowFeedback_Toggle(k) ==
  /\ frontend = "react"
  /\ FeedbackOffered(messages[k])
  /\ CanOpen(messages[k].id)
  /\ feedbackVisibility' = SetVisibility(messages[k].id, ~Visible(messages[k].id))
  /\ panels' = Render(messages, feedbackVisibility')
  /\ event' = [op |-> "showFeedback", id |-> messages[k].id,
                shown |-> Visible(messages[k].id)]
  /\ FeedbackFrame

\* "Suggest a better answer" under the k-th message.
ShowFeedback(k) ==
  /\ frontend = "react"
  /\ FeedbackOffered(messages[k])
  /\ CanOpen(messages[k].id)
  /\ feedbackVisibility' = SetVisibility(messages[k].id, TRUE)
  /\ panels' = Render(messages, feedbackVisibility')
  /\ event' = [op |-> "showFeedback", id |-> messages[k].id,
                shown |-> Visible(messages[k].id)]
  /\ FeedbackFrame

\* toggleFeedback, from the control under the j-th item of the k-th message.
toggleFeedback(k, j) ==
  /\ frontend = "react"
  /\ Flag(messages[k], "isQAContainer")
  /\ j \in 1..Len(messages[k].qaItems)
  /\ LET id == messages[k].qaItems[j].id
     IN  /\ CanOpen(id)
         /\ feedbackVisibility' = SetVisibility(id, ~Visible(id))
         /\ panels' = Render(messages, feedbackVisibility')
         /\ event' = [op |-> "toggleFeedback", id |-> id]
  /\ FeedbackFrame

\* The ids whose FeedbackPanel is rendered.
PanelIds ==
  {messages[k].id : k \in {n \in 1..Len(messages) : FeedbackOffered(messages[n])}}
    \cup UNION {{messages[k].qaItems[j].id : j \in 1..Len(messages[k].qaItems)} :
                k \in {n \in 1..Len(messages) : Flag(messages[n], "isQAContainer")}}

\* handleCancelFeedback, from the Cancel button of a rendered panel.
handleCancelFeedback(id) ==
  /\ frontend = "react"
  /\ id \in PanelIds
  /\ Visible(id)
  /\ feedbackVisibility' = SetVisibility(id, FALSE)
  /\ panels' = Render(messages, feedbackVisibility')
  /\ event' = [op |-> "handleCancelFeedback", id |-> id]
  /\ FeedbackFrame

\* <TextField onChange> of the panel at place s: the user types v.  Typing
\* is followed while a submission can still be started.
setEditedAnswer(s, v) ==
  /\ frontend = "react"
  /\ s \in DOMAIN panels
  /\ ops < MaxOps
  /\ panels' = [panels EXCEPT ![s] = [editedAnswer |-> v, error |-> ""]]
  /\ event' = [op |-> "setEditedAnswer", slot |-> s]
  /\ UNCHANGED feedbackVisibility
  /\ FeedbackFrame

\* messages.find(msg => msg.id === id): the place of the first message
\* that carries the id, 0 when none does.
FindMessage(id) ==
  LET hits == {k \in 1..Len(messages) : "id" \in DOMAIN messages[k] /\ messages[k].id = id}
  IN  IF hits = {} THEN 0 ELSE CHOOSE k \in hits : \A n \in hits : k <= n

\* The loop over the QA containers: the place of the first item that
\* carries the id, <<0, 0>> when none does.
FindQAItem(id) ==
  LET hits == {x \in PanelSlots(messages) : x[2] > 0 /\ SlotId(messages, x) = id}
  IN  IF hits = {} THEN <<0, 0>>
      ELSE CHOOSE x \in hits :
             \A y \in hits : x[1] < y[1] \/ (x[1] = y[1] /\ x[2] <= y[2])

\* What handleFeedbackSubmit resolves for an id: whether `message` is
\* defined, originalQuery, originalAnswer and message?.context || [].
Resolve(id) ==
  LET k == FindMessage(id)
      x == FindQAItem(id)
  IN  IF k > 0
      THEN [message |-> TRUE,
            originalQuery |-> Or(Get(messages[k], "question", ""), Get(messages[k], "text", "")),
            originalAnswer |-> Get(messages[k], "text", ""),
            context |-> Get(messages[k], "context", <<>>)]
      ELSE IF x[1] > 0
      THEN [message |-> FALSE,
            originalQuery |-> messages[x[1]].qaItems[x[2]].question,
            originalAnswer |-> messages[x[1]].qaItems[x[2]].answer,
            context |-> <<>>]
      ELSE [message |-> FALSE, originalQuery |-> "", originalAnswer |-> "", context |-> <<>>]

\* The object FeedbackPanel.handleSubmit passes to onFeedbackSubmit.
FeedbackData(id, editedAnswer) ==
  [messageId |-> id,
   feedbackType |-> "correction",
   editedAnswer |-> editedAnswer,
   ratings |-> [relevance |-> 5, accuracy |-> 5]]

\* completeData: the body of the /feedback request.
CompleteData(feedbackData) ==
  LET r == Resolve(feedbackData.messageId)
  IN  feedbackData @@ [original_query |-> r.originalQuery,
                       original_answer |-> r.originalAnswer,
                       context_used |-> r.context]

\* A test that looks at `message` alone.
NothingFound_IgnoreTexts(r) == ~r.message

\* if (!originalQuery && !originalAnswer && !message)
NothingFound(r) == r.originalQuery = "" /\ r.originalAnswer = "" /\ ~r.message

\* handleFeedbackSubmit, from its first line to the await or the return.
handleFeedbackSubmit(feedbackData) ==
  /\ ops < MaxOps
  /\ ops' = ops + 1
  /\ IF NothingFound(Resolve(feedbackData.messageId))
     THEN /\ alerts' = Append(alerts, FeedbackNotFoundText)
          /\ UNCHANGED net
     ELSE /\ requests' = Append(requests,
                                [url |-> FeedbackUrl, body |-> CompleteData(feedbackData)])
          /\ pending' = Append(pending, [url |-> FeedbackUrl, seq |-> Len(requests) + 1,
                                         messageId |-> feedbackData.messageId])
          /\ UNCHANGED alerts

\* A panel that accepts any text.
HasWord_AnyText(editedAnswer) == TRUE

\* editedAnswer.trim(), as a truth value.
HasWord(editedAnswer) == Trim(editedAnswer) /= ""

\* FeedbackPanel.handleSubmit of the panel at place s.
handleSubmit(s) ==
  /\ frontend = "react"
  /\ s \in DOMAIN panels
  /\ LET id == SlotId(messages, s)
         editedAnswer == panels[s].editedAnswer
     IN  /\ event' = [op |-> "handleSubmit", slot |-> s, messageId |-> id,
                      editedAnswer |-> editedAnswer]
         /\ IF ~HasWord(editedAnswer)
            THEN /\ panels' = [panels EXCEPT ![s].error = PanelErrorText]
                 /\ UNCHANGED <<ops, net, alerts>>
            ELSE /\ handleFeedbackSubmit(FeedbackData(id, editedAnswer))
                 /\ panels' = [panels EXCEPT ![s] = FreshPanel]
  /\ UNCHANGED <<session, mounted, now, messages, input, isProcessing,
                 selectedFile, feedbackVisibility, page>>

\* <SubmitButton onClick={handleSubmit} disabled={!editedAnswer.trim()}>
ClickSubmit(s) ==
  /\ s \in DOMAIN panels
  /\ HasWord(panels[s].editedAnswer)
  /\ handleSubmit(s)

\* handleFeedbackSubmit after the await: a 2xx answer with a body, or a
\* rejection (transport failure, non-2xx status).
FeedbackSettled(i, out) ==
  LET req == pending[i]
  IN  /\ frontend = "react"
      /\ req.url = FeedbackUrl
      /\ IF ~out.ok
         THEN /\ alerts' = Append(alerts, FeedbackFailedText)
              /\ UNCHANGED feedbackVisibility
         ELSE IF out.data.status = "success"
         THEN /\ alerts' = Append(alerts, FeedbackThanksText)
              /\ feedbackVisibility' = SetVisibility(req.messageId, FALSE)
         ELSE UNCHANGED <<alerts, feedbackVisibility>>
      /\ panels' = Render(messages, feedbackVisibility')
      /\ pending' = Remove(pending, i)
      /\ event' = [op |-> "feedbackSettled", request |-> req, outcome |-> out]
      /\ UNCHANGED <<session, mounted, now, ops, requests, messages, input,
                     isProcessing, selectedFile, page>>

\* How a request can settle.
ChatOutcomes == {[ok |-> TRUE, data |-> d] : d \in ChatData} \cup {[ok |-> FALSE]}
UploadOutcomes == {[ok |-> TRUE, data |-> d] : d \in UploadData} \cup {[ok |-> FALSE]}
FeedbackOutcomes ==
  {[ok |-> TRUE, data |-> [status |-> st]] : st \in {"success", "error"}}
    \cup {[ok |-> FALSE]}

ReactNext ==
  \/ WelcomeEffect
  \/ \E v \in Inputs : SetInput(v)
  \/ \E files \in {<<>>, <<userFile>>} : handleFileChange(files)
  \/ ClickSend
  \/ PressEnter
  \/ \E i \in 1..Len(pending) : \E out \in ChatOutcomes : ChatSettled(i, out)
  \/ uploadFile
  \/ \E i \in 1..Len(pending) : \E out \in UploadOutcomes : UploadSettled(i, out)
  \/ \E k \in 1..Len(messages) : ShowFeedback(k)
  \/ \E k \in 1..Len(messages) : \E j \in 1..MaxResponses + 1 : toggleFeedback(k, j)
  \/ \E id \in DOMAIN feedbackVisibility : handleCancelFeedback(id)
  \/ \E s \in DOMAIN panels : \E v \in FeedbackInputs : setEditedAnswer(s, v)
  \/ \E s \in DOMAIN panels : ClickSubmit(s)
  \/ \E i \in 1..Len(pending) : \E out \in FeedbackOutcomes : FeedbackSettled(i, out)

\* ---------------------------------------------------- script.js (static)

\* The state every callback of the static page leaves alone.
PageFrame == UNCHANGED <<session, now, widget>>

UpperCase == "ABCDEFGHIJKLMNOPQRSTUVWXYZ"
LowerCase == "abcdefghijklmnopqrstuvwxyz"

\* One character, lower-cased.
LowerChar(c) ==
  IF \E i \in 1..Len(UpperCase) : SubSeq(UpperCase, i, i) = c
  THEN LET i == CHOOSE i \in 1..Len(UpperCase) : SubSeq(UpperCase, i, i) = c
       IN  SubSeq(LowerCase, i, i)
  ELSE c

RECURSIVE ToLower(_)
ToLower(s) ==
  IF Len(s) = 0 THEN "" ELSE LowerChar(SubSeq(s, 1, 1)) \o ToLower(Tail(s))

EndsWith(s, suffix) ==
  /\ Len(s) >= Len(suffix)
  /\ SubSeq(s, Len(s) - Len(suffix) + 1, Len(s)) = suffix

\* The same pattern without its i flag.
MatchesExcel_CaseSensitive(name) ==
  EndsWith(name, ".xlsx") \/ EndsWith(name, ".xls")

\* file.name.match(/\.(xlsx|xls)$/i)
MatchesExcel(name) ==
  EndsWith(ToLower(name), ".xlsx") \/ EndsWith(ToLower(name), ".xls")

ExcelOnlyText == "Please upload an Excel file (.xlsx or .xls)"
ThinkingText == "Processing your questions. This may take a moment..."
EmptyResultText ==
  "No questions found in the uploaded file. Please ensure your Excel file contains a \"questions\" column."
StaticChatErrorText == "Sorry, something went wrong."
ProcessedText == "File processed successfully!"
NotAChildText ==
  "Failed to execute 'removeChild' on 'Node': The node to be removed is not a child of this node."
FetchFailedText == "Failed to fetch"

\* createMessageElement(type, text, source), as the element numbered n: the
\* source tag exists for a response with a truthy source only.
createMessageElement(n, type, text, source) ==
  IF type = "response" /\ source /= ""
  THEN [node |-> n, type |-> type, text |-> text, sourceTag |-> "Source: " \o source]
  ELSE [node |-> n, type |-> type, text |-> text]

\* The element addChatBubble(container, text, type) appends.
ChatBubble(n, text, type) == [node |-> n, type |-> type, text |-> text]

\* showNotification(message, type): the notification shown.  Its own timers
\* only animate it and take it off the page again.
Notification(message, type) == [message |-> message, type |-> type]

\* container.contains(element), for a child element.
Contains(container, n) == \E k \in 1..Len(container) : container[k].node = n

\* A removal that takes every child off the container.
RemoveChild_Clear(container, n) == <<>>

\* container.removeChild(element), for an element that is a child.
RemoveChild(container, n) ==
  Remove(container, CHOOSE k \in 1..Len(container) : container[k].node = n)

\* chatModelInput: the user types.
StaticSetInput(v) ==
  /\ frontend = "static"
  /\ input' = v
  /\ event' = [op |-> "setInput"]
  /\ UNCHANGED <<ops, net, page>>
  /\ PageFrame

\* The click handler of chatModelSendBtn, from its first line to the await.
StaticChatClick ==
  /\ frontend = "static"
  /\ event' = [op |-> "chatClick", input |-> input]
  /\ LET userMessage == Trim(input)
     IN  IF userMessage = ""
         THEN UNCHANGED <<ops, net, input, chatModelContainer, nodes>>
         ELSE /\ ops < MaxOps
              /\ ops' = ops + 1
              /\ nodes' = nodes + 1
              /\ chatModelContainer' =
                   Append(chatModelContainer, ChatBubble(nodes + 1, userMessage, "question"))
              /\ input' = ""
              /\ requests' = Append(requests,
                                    [url |-> "/chat", body |-> [message |-> userMessage]])
              /\ pending' = Append(pending, [url |-> "/chat", seq |-> Len(requests) + 1,
                                            message |-> userMessage])
  /\ UNCHANGED <<chatContainer, progressBar, notifications, timers, batches>>
  /\ PageFrame

\* The click handler after the await: `out.ok` is false when fetch rejected,
\* the status was not 2xx or the body was not JSON.
StaticChatSettled(i, out) ==
  LET req == pending[i]
      text == IF out.ok THEN out.data.response ELSE StaticChatErrorText
  IN  /\ frontend = "static"
      /\ req.url = "/chat"
      /\ nodes' = nodes + 1
      /\ chatModelContainer' =
           Append(chatModelContainer, ChatBubble(nodes + 1, text, "response"))
      /\ pending' = Remove(pending, i)
      /\ event' = [op |-> "chatSettled", request |-> req, outcome |-> out]
      /\ UNCHANGED <<ops, requests, input, chatContainer, progressBar,
                     notifications, timers, batches>>
      /\ PageFrame

\* handleFile(file), from its first line to the await; the drop handler and
\* the change handler of the file input both call it.
handleFile(file) ==
  /\ frontend = "static"
  /\ ops < MaxOps
  /\ ops' = ops + 1
  /\ event' = [op |-> "handleFile", file |-> file]
  /\ IF ~MatchesExcel(file.name)
     THEN /\ notifications' = Append(notifications, Notification(ExcelOnlyText, "error"))
          /\ UNCHANGED <<net, chatContainer, progressBar, nodes>>
     ELSE /\ nodes' = nodes + 1
          /\ chatContainer' = << createMessageElement(nodes + 1, "response", ThinkingText, "AI") >>
          /\ progressBar' = [hidden |-> FALSE, width |-> "30%"]
          /\ requests' = Append(requests, [url |-> "/upload", body |-> [file |-> file]])
          /\ pending' = Append(pending,
                               [url |-> "/upload", seq |-> Len(requests) + 1,
                                file |-> file, thinkingMessage |-> nodes + 1])
          /\ UNCHANGED notifications
  /\ UNCHANGED <<input, chatModelContainer, timers, batches>>
  /\ PageFrame

\* The timers displayResponses(responses) sets for a non-empty list, as
\* batch b, for the answer to the request numbered u: for the k-th pair a
\* question after 600(k-1) ms and a response after 600(k-1)+300 ms.
DisplayTimers(b, u, responses) ==
  UNION { { [batch |-> b, upload |-> u, delay |-> 600 * (k - 1), type |-> "question",
             text |-> responses[k].question, source |-> "User"],
            [batch |-> b, upload |-> u, delay |-> 600 * (k - 1) + 300, type |-> "response",
             text |-> responses[k].response,
             source |-> Or(Get(responses[k], "source", ""), "AI Assistant")] }
          : k \in 1..Len(responses) }

\* The timer that hides the progress bar one second after a success.
HideTimer(b, u) == [batch |-> b, upload |-> u, delay |-> 1000, type |-> "hide"]

\* handleFile after the await, up to and including the catch block.
\* `out.ok` is false when fetch rejected or the body was not JSON.
StaticUploadSettled(i, out) ==
  LET req == pending[i]
      thinking == req.thinkingMessage
      attached == Contains(chatContainer, thinking)
      detached == IF attached THEN RemoveChild(chatContainer, thinking) ELSE chatContainer
      responses == Get(out.data, "responses", <<>>)
  IN  /\ frontend = "static"
      /\ req.url = "/upload"
      /\ pending' = Remove(pending, i)
      /\ event' = [op |-> "uploadSettled", request |-> req, outcome |-> out]
      /\ chatContainer' =
           IF out.ok /\ attached /\ out.data.status = "success" /\ Len(responses) = 0
           THEN Append(detached, [node |-> nodes + 1, className |-> "empty-message",
                                  text |-> EmptyResultText])
           ELSE detached
      /\ IF out.ok /\ attached /\ out.data.status = "success"
         THEN /\ progressBar' = [progressBar EXCEPT !.width = "100%"]
              /\ batches' = batches + 1
              /\ timers' = timers \cup {HideTimer(batches + 1, req.seq)}
                             \cup DisplayTimers(batches + 1, req.seq, responses)
              /\ nodes' = IF Len(responses) = 0 THEN nodes + 1 ELSE nodes
              /\ notifications' = Append(notifications, Notification(ProcessedText, "success"))
         ELSE /\ progressBar' = [hidden |-> TRUE, width |-> "0%"]
              /\ notifications' =
                   Append(notifications,
                          Notification(IF ~out.ok
                                         THEN "Error uploading file: " \o out.message
                                       ELSE IF ~attached
                                         THEN "Error uploading file: " \o NotAChildText
                                       ELSE "Error: " \o Get(out.data, "message", "undefined"),
                                       "error"))
              /\ UNCHANGED <<timers, nodes, batches>>
      /\ UNCHANGED <<ops, requests, input, chatModelContainer>>
      /\ PageFrame

\* Timers that run in any order.
DueBefore_Unordered(t, u) == FALSE

\* Timers run in the order of their due times.  The due time of a timer is
\* the instant it was set plus its delay and the instants are not part of the
\* state: t is due no later than u whenever t was set no later than u with
\* a delay no longer than u's.
DueBefore(t, u) == t /= u /\ t.batch <= u.batch /\ t.delay <= u.delay

\* A setTimeout callback runs.
TimerFired(t) ==
  /\ frontend = "static"
  /\ t \in timers
  /\ ~\E u \in timers : DueBefore(u, t)
  /\ timers' = timers \ {t}
  /\ event' = [op |-> "timer", timer |-> t]
  /\ IF t.type = "hide"
     THEN /\ progressBar' = [hidden |-> TRUE, width |-> "0%"]
          /\ UNCHANGED <<chatContainer, nodes>>
     ELSE /\ nodes' = nodes + 1
          /\ chatContainer' =
               Append(chatContainer, createMessageElement(nodes + 1, t.type, t.text, t.source))
          /\ UNCHANGED progressBar
  /\ UNCHANGED <<ops, net, input, chatModelContainer, notifications, batches>>
  /\ PageFrame

StaticChatOutcomes ==
  {[ok |-> TRUE, data |-> d] : d \in ChatData} \cup {[ok |-> FALSE]}
StaticUploadOutcomes ==
  {[ok |-> TRUE, data |-> d] : d \in UploadData}
    \cup {[ok |-> FALSE, data |-> <<>>, message |-> FetchFailedText]}

StaticNext ==
  \/ \E v \in Inputs : StaticSetInput(v)
  \/ StaticChatClick
  \/ \E i \in 1..Len(pending) : \E out \in StaticChatOutcomes : StaticChatSettled(i, out)
  \/ handleFile(userFile)
  \/ \E i \in 1..Len(pending) : \E out \in StaticUploadOutcomes : StaticUploadSettled(i, out)
  \/ \E t \in timers : TimerFired(t)

Next == Tick \/ ReactNext \/ StaticNext

Spec == Init /\ [][Next]_vars

\* The widget with the handlers of its feedback form called directly: what
\* FeedbackPanel.handleSubmit does when it runs on a text the Submit button
\* would not let through.
HandlerInit ==
  /\ Init
  /\ frontend = "react"
  /\ userFile = File("OLD.XLS")

HandlerNext ==
  \/ Tick
  \/ ReactNext
  \/ \E s \in DOMAIN panels : \E v \in BlankInputs : setEditedAnswer(s, v)
  \/ \E s \in DOMAIN panels : handleSubmit(s)

HandlerSpec == HandlerInit /\ [][HandlerNext]_vars

\* The static page with its timers: a callback given to setTimeout is run
\* by the browser once it is due, whatever else happens on the page.
PageInit ==
  /\ Init
  /\ frontend = "static"

PageNext == StaticNext

PageSpec == PageInit /\ [][PageNext]_vars /\ WF_vars(\E t \in timers : TimerFired(t))

\* ----------------------------------------------------------- properties

\* The step just taken ran the callback `op` (every action records itself
\* in `event`).
Ran(op) == event'.op = op

\* A text that is empty or made of white space only.
IsBlank(s) == \A i \in 1..Len(s) : SubSeq(s, i, i) \in {" ", "\t", "\n", "\r"}

\* The extension of a file name, lower-cased, with its dot ("" if none).
RECURSIVE Extension(_)
Extension(name) ==
  IF Len(name) = 0 THEN ""
  ELSE IF SubSeq(name, 1, 1) = "." /\ ~\E i \in 2..Len(name) : SubSeq(name, i, i) = "."
  THEN ToLower(name)
  ELSE Extension(Tail(name))

\* The extensions the specification accepts for an upload.
AcceptedExtensions == {".xlsx", ".xls", ".csv"}

IsUploadRequest(r) == EndsWith(r.url, "/upload")
IsChatRequest(r) == EndsWith(r.url, "/chat")

\* An /upload answer the continuation handles to its end as a success.
IsSuccess(out) ==
  out.ok /\ out.data.status = "success" /\ "responses" \in DOMAIN out.data

IsConfirmation(m) == ~m.isUser /\ Get(m, "text", "") = UploadConfirmText
IsQABatch(m) == Flag(m, "isQAContainer")
IsDownloadPrompt(m) == Flag(m, "downloadOnly")

\* C1: in the widget, a send of a text that does not trim to empty appends
\* exactly one user message (the trimmed text) and issues the request; when
\* the request settles, by success or by failure, exactly one message is
\* appended, an assistant message that directly follows the user message of
\* that send, and isProcessing is false afterwards.
C1_SendThenOneReply ==
  [][ /\ (frontend = "react" /\ Ran("sendMessage") /\ ~IsBlank(input))
           => /\ Suffix(messages, messages') = << [text |-> Trim(input), isUser |-> TRUE] >>
              /\ SubSeq(messages', 1, Len(messages)) = messages
              /\ Len(pending') = Len(pending) + 1
      /\ (frontend = "react" /\ Ran("chatSettled"))
           => /\ Len(messages') = Len(messages) + 1
              /\ SubSeq(messages', 1, Len(messages)) = messages
              /\ ~messages'[Len(messages')].isUser
              /\ messages[Len(messages)] =
                   [text |-> event'.request.message, isUser |-> TRUE]
              /\ ~isProcessing'
              /\ Len(pending') = Len(pending) - 1
    ]_vars

\* C1 witness: a chat request of the widget has failed and its single
\* fallback reply is the last message.
C1_Witness ==
  /\ frontend = "react"
  /\ event.op = "chatSettled"
  /\ ~event.outcome.ok
  /\ Len(messages) = 3
  /\ ~isProcessing

\* C2: in both front ends a send whose input is empty or white space only
\* changes nothing: not the conversation, not the requests, not the
\* processing flag, not the input.
C2_BlankSendIsNoOp ==
  [][ ((Ran("sendMessage") \/ Ran("chatClick")) /\ IsBlank(input))
        => UNCHANGED <<messages, chatModelContainer, requests, pending,
                       isProcessing, input, notifications>>
    ]_vars

\* C2 witness: sendMessage has just run on an input of white space.
C2_Witness ==
  /\ event.op \in {"sendMessage", "chatClick"}
  /\ event.input /= ""
  /\ IsBlank(event.input)
  /\ requests = <<>>

\* C3: no /upload request is ever issued for a file whose name does not end
\* in an accepted extension.
C3_UnsupportedFileNeverUploaded ==
  \A k \in 1..Len(requests) :
    IsUploadRequest(requests[k])
      => Extension(requests[k].body.file.name) \in AcceptedExtensions

C5_BatchHasOneItemPerPair ==
  [][ (frontend = "react" /\ Ran("uploadSettled") /\ IsSuccess(event'.outcome))
        => LET new == Suffix(messages, messages')
               responses == event'.outcome.data.responses
               batches_ == {k \in 1..Len(new) : IsQABatch(new[k])}
               prompts == {k \in 1..Len(new) : IsDownloadPrompt(new[k])}
           IN  /\ Cardinality(batches_) = 1
               /\ Cardinality(prompts) = 1
               /\ \A b \in batches_ :
                    /\ \A d \in prompts : b < d
                    /\ Len(new[b].qaItems) = Len(responses)
                    /\ \A k \in 1..Len(responses) :
                         /\ new[b].qaItems[k].question = responses[k].question
                         /\ new[b].qaItems[k].answer = responses[k].response
                         /\ new[b].qaItems[k].id /= new[b].id
                    /\ \A j, k \in 1..Len(responses) :
                         j /= k => new[b].qaItems[j].id /= new[b].qaItems[k].id
    ]_vars

\* C5 witness: an answer with two pairs has been handled and the batch
\* holds two items.
C5_Witness ==
  /\ frontend = "react"
  /\ event.op = "uploadSettled"
  /\ IsSuccess(event.outcome)
  /\ Len(event.outcome.data.responses) = 2
  /\ Len(messages) >= 2
  /\ IsQABatch(messages[Len(messages) - 1])
  /\ Len(messages[Len(messages) - 1].qaItems) = 2

\* C6: in the widget, a successful upload adds exactly four entries, next to
\* each other and in this order: the user-origin status message (when the
\* request is issued), then the assistant confirmation, the qaBatch and the
\* download prompt (when the answer is handled).
C6_SuccessfulUploadAddsFour ==
  [][ /\ Ran("uploadFile")
           => /\ SubSeq(messages', 1, Len(messages)) = messages
              /\ Suffix(messages, messages') =
                   << [text |-> UploadStatusText(event'.file.name), isUser |-> TRUE] >>
      /\ (frontend = "react" /\ Ran("uploadSettled") /\ IsSuccess(event'.outcome))
           => LET new == Suffix(messages, messages')
              IN  /\ SubSeq(messages', 1, Len(messages)) = messages
                  /\ messages[Len(messages)] =
                       [text |-> UploadStatusText(event'.request.file.name), isUser |-> TRUE]
                  /\ Len(new) = 3
                  /\ IsConfirmation(new[1]) /\ ~IsQABatch(new[1]) /\ ~IsDownloadPrompt(new[1])
                  /\ IsQABatch(new[2]) /\ ~new[2].isUser
                  /\ IsDownloadPrompt(new[3]) /\ ~new[3].isUser
    ]_vars

\* C6 witness: the welcome message and the four entries of one successful
\* upload with one pair.
C6_Witness ==
  /\ frontend = "react"
  /\ event.op = "uploadSettled"
  /\ IsSuccess(event.outcome)
  /\ Len(event.outcome.data.responses) = 1
  /\ Len(messages) = 5
  /\ messages[2].isUser
  /\ IsDownloadPrompt(messages[5])

\* C7: in the widget, an upload that ends with a status other than success
\* or with a thrown failure (one thrown while a success answer is handled
\* included) appends exactly one assistant message and no confirmation,
\* qaBatch or download prompt.
C7_FailedUploadAddsOne ==
  [][ (frontend = "react" /\ Ran("uploadSettled") /\ ~IsSuccess(event'.outcome))
        => LET new == Suffix(messages, messages')
           IN  /\ Len(new) = 1
               /\ ~new[1].isUser
               /\ ~IsConfirmation(new[1])
               /\ ~IsQABatch(new[1])
               /\ ~IsDownloadPrompt(new[1])
    ]_vars

\* C8: in the widget, the selected file is null after every settled upload.
C8_FileClearedAfterUpload ==
  [][ (frontend = "react" /\ Ran("uploadSettled")) => selectedFile' = Null ]_vars

\* C9: in the widget, the message appended for a failed chat request has
\* the fixed fallback text and no id, so no feedback control is offered
\* for it.
C9_ErrorReplyHasNoId ==
  [][ (frontend = "react" /\ Ran("chatSettled") /\ ~event'.outcome.ok)
        => LET new == Suffix(messages, messages')
           IN  /\ Len(new) = 1
               /\ new[1].text = ChatErrorText
               /\ "id" \notin DOMAIN new[1]
               /\ ~FeedbackOffered(new[1])
    ]_vars

\* The places of the conversation that carry an id: <<k, 0>> for the k-th
\* message, <<k, j>> for the j-th item of the k-th message.
IdSlots ==
  {<<k, 0>> : k \in {n \in 1..Len(messages) : "id" \in DOMAIN messages[n]}}
    \cup UNION {{<<k, j>> : j \in 1..Len(messages[k].qaItems)} :
                k \in {n \in 1..Len(messages) : IsQABatch(messages[n])}}

IdAt(slot) ==
  IF slot[2] = 0 THEN messages[slot[1]].id ELSE messages[slot[1]].qaItems[slot[2]].id

\* C10: in every state of the widget no two entries that carry an id carry
\* the same one.
C10_IdsAreUnique ==
  \A a, b \in IdSlots : a /= b => IdAt(a) /= IdAt(b)

\* The ids the conversation carries: those of its messages and those of
\* the items of its batches.
UsedIds == {IdAt(a) : a \in IdSlots}

\* C11: in the widget, the message appended for a chat request for text T
\* that succeeded has an id that no earlier entry carries, T as its stored
\* question and the context of the answer (the empty list when the answer
\* has none) as its stored context.
C11_ChatReplyIsFresh ==
  [][ (frontend = "react" /\ Ran("chatSettled") /\ event'.outcome.ok)
        => LET new == Suffix(messages, messages')
           IN  /\ Len(new) = 1
               /\ "id" \in DOMAIN new[1]
               /\ new[1].id \notin UsedIds
               /\ new[1].question = event'.request.message
               /\ new[1].question = messages[Len(messages)].text
               /\ new[1].context = Get(event'.outcome.data, "context", <<>>)
    ]_vars

\* C12: a submission of a feedback form whose text trims to empty issues
\* no request, leaves feedbackVisibility as it was and shows no alert; the
\* form shows its validation error instead and keeps its text.
C12_BlankFeedbackStaysLocal ==
  [][ (Ran("handleSubmit") /\ IsBlank(event'.editedAnswer))
        => /\ UNCHANGED <<requests, pending, feedbackVisibility, alerts, messages>>
           /\ DOMAIN panels' = DOMAIN panels
           /\ panels'[event'.slot].error = PanelErrorText
           /\ panels'[event'.slot].editedAnswer = event'.editedAnswer
    ]_vars

\* C12 witness: handleSubmit has just run on a text of white space and the
\* form shows the validation error.
C12_Witness ==
  /\ event.op = "handleSubmit"
  /\ event.editedAnswer \in BlankInputs
  /\ event.slot \in DOMAIN panels
  /\ panels[event.slot].error = PanelErrorText
  /\ \A k \in 1..Len(requests) : requests[k].url /= FeedbackUrl

\* The request issued by the step just taken, if it issued exactly one.
Issued == requests'[Len(requests')]
IssuedOne == Len(requests') = Len(requests) + 1 /\ SubSeq(requests', 1, Len(requests)) = requests

\* C13: a submission with a non-empty text from the form of a qaItem issues
\* one /feedback request that carries the id of the item, the text, and the
\* question and the answer of the item as original_query and
\* original_answer; when a /feedback request is answered with status
\* success, the feedbackVisibility entry of its id is false afterwards.
C13_ItemFeedbackIsSent ==
  [][ /\ (Ran("handleSubmit") /\ ~IsBlank(event'.editedAnswer) /\ event'.slot[2] > 0)
           => LET item == messages[event'.slot[1]].qaItems[event'.slot[2]]
              IN  /\ IssuedOne
                  /\ Issued.url = FeedbackUrl
                  /\ Issued.body.messageId = item.id
                  /\ Issued.body.editedAnswer = event'.editedAnswer
                  /\ Issued.body.original_query = item.question
                  /\ Issued.body.original_answer = item.answer
      /\ (Ran("feedbackSettled") /\ event'.outcome.ok
            /\ event'.outcome.data.status = "success")
           => /\ event'.request.messageId \in DOMAIN feedbackVisibility'
              /\ feedbackVisibility'[event'.request.messageId] = FALSE
    ]_vars

\* The k-th message is a reply to a chat send that carries a feedback
\* control: an assistant message with an id that is not the confirmation of
\* an upload.
IsChatReply(k) == FeedbackOffered(messages[k]) /\ ~IsConfirmation(messages[k])

\* C14: a submission from the form of a reply to a chat send issues one
\* /feedback request whose original_query is the user question the reply
\* answers (the user message right before it), whose original_answer is the
\* text of the reply and whose context_used is the context stored with the
\* reply (the empty list when there is none).
C14_ChatFeedbackCarriesQuestion ==
  [][ (Ran("handleSubmit") /\ ~IsBlank(event'.editedAnswer) /\ event'.slot[2] = 0
         /\ IsChatReply(event'.slot[1]))
        => LET k == event'.slot[1]
           IN  /\ IssuedOne
               /\ Issued.url = FeedbackUrl
               /\ Issued.body.messageId = messages[k].id
               /\ Issued.body.original_query = messages[k - 1].text
               /\ Issued.body.original_answer = messages[k].text
               /\ Issued.body.context_used = Get(messages[k], "context", <<>>)
    ]_vars

\* C15: when handleFeedbackSubmit is given an id that no message and no
\* qaItem carries, it issues no request, alerts the user and leaves
\* feedbackVisibility as it was; when the id is one that a message or a
\* qaItem carries, it issues the /feedback request for that id.
C15_RequestIffIdExists ==
  [][ (Ran("handleSubmit") /\ ~IsBlank(event'.editedAnswer))
        => LET id == event'.messageId
           IN  /\ id \notin UsedIds
                    => /\ UNCHANGED <<requests, pending, feedbackVisibility>>
                       /\ alerts' = Append(alerts, FeedbackNotFoundText)
               /\ id \in UsedIds
                    => /\ IssuedOne
                       /\ Issued.url = FeedbackUrl
                       /\ Issued.body.messageId = id
                       /\ UNCHANGED alerts
    ]_vars

\* C16: when a /feedback request fails, by a rejection or by an answer
\* whose status is not success, the user is shown one alert, which is not
\* the thanks, and feedbackVisibility is left as it was.
C16_FailedFeedbackIsSignalled ==
  [][ (Ran("feedbackSettled")
         /\ ~(event'.outcome.ok /\ event'.outcome.data.status = "success"))
        => /\ UNCHANGED feedbackVisibility
           /\ Len(alerts') = Len(alerts) + 1
           /\ SubSeq(alerts', 1, Len(alerts)) = alerts
           /\ alerts'[Len(alerts')] /= FeedbackThanksText
    ]_vars

\* The chat requests and the upload requests in flight, by their place
\* in `pending`.
ChatsInFlight == {i \in 1..Len(pending) : IsChatRequest(pending[i])}
UploadsInFlight == {i \in 1..Len(pending) : IsUploadRequest(pending[i])}

\* C17: in every state of either front end at most one chat request and at
\* most one upload request are in flight.
C17_OneInFlightPerKind ==
  /\ Cardinality(ChatsInFlight) <= 1
  /\ Cardinality(UploadsInFlight) <= 1

C19_RepliesInRequestOrder ==
  [][ Ran("chatSettled")
        => /\ \A i \in ChatsInFlight : event'.request.seq <= pending[i].seq
           /\ IF frontend = "react"
              THEN Len(messages') = Len(messages) + 1
                     /\ SubSeq(messages', 1, Len(messages)) = messages
              ELSE Len(chatModelContainer') = Len(chatModelContainer) + 1
                     /\ SubSeq(chatModelContainer', 1, Len(chatModelContainer))
                          = chatModelContainer
    ]_vars

\* `old` is the beginning of `new`.
IsPrefix(old, new) == Len(old) <= Len(new) /\ SubSeq(new, 1, Len(old)) = old

\* C20 as claimed: in both front ends every step leaves the previous log
\* as a prefix of the new one, the step that starts an upload included.
C20_LogIsAppendOnly ==
  [][ /\ IsPrefix(messages, messages')
      /\ IsPrefix(chatModelContainer, chatModelContainer')
      /\ IsPrefix(chatContainer, chatContainer')
    ]_vars

\* C20 as amended: the conversation of the widget and the chat bubbles of
\* the static page are append-only.  The results area of the static page is
\* not: an accepted file replaces whatever it holds by the "Processing your
\* questions" message alone, the answer to the upload takes that message
\* off again (keeping the other elements, in their order, and adding at
\* most one), and every other step of the page leaves what it holds as a
\* prefix.
C20_LogIsAppendOnly_Amended ==
  [][ /\ IsPrefix(messages, messages')
      /\ IsPrefix(chatModelContainer, chatModelContainer')
      /\ (Ran("handleFile") /\ MatchesExcel(event'.file.name))
           => /\ Len(chatContainer') = 1
              /\ chatContainer'[1].text = ThinkingText
              /\ ~Contains(chatContainer, chatContainer'[1].node)
      /\ (frontend = "static" /\ Ran("uploadSettled"))
           => LET kept == SelectSeq(chatContainer,
                                    LAMBDA e : e.node /= event'.request.thinkingMessage)
              IN  /\ IsPrefix(kept, chatContainer')
                  /\ Len(chatContainer') <= Len(kept) + 1
      /\ ~(Ran("handleFile") /\ MatchesExcel(event'.file.name))
           /\ ~(frontend = "static" /\ Ran("uploadSettled"))
           => IsPrefix(chatContainer, chatContainer')
    ]_vars

\* C20 witness: the static page has shown the results of one upload and
\* the start of the next upload has replaced them by the processing
\* message.
C20_Witness ==
  /\ frontend = "static"
  /\ event.op = "handleFile"
  /\ MatchesExcel(event.file.name)
  /\ batches = 1
  /\ \A t \in timers : t.type = "hide"
  /\ Len(chatContainer) = 1
  /\ chatContainer[1].node = nodes
  /\ nodes >= 3

\* C21: every failure is shown to the user and leaves the page ready for
\* another try.  In the widget a failed chat request and a failed upload
\* append one assistant message and reset isProcessing; a failed /feedback
\* request and a feedback target that is not found show one alert.  On the
\* static page a failed chat request appends one bubble and a failed upload
\* shows one error notification and hides the progress bar.  A failure is
\* a rejection or, for /upload and /feedback, an answer whose status is not
\* success.
C21_FailuresAreVisible ==
  [][ /\ (frontend = "react" /\ Ran("chatSettled") /\ ~event'.outcome.ok)
           => Len(messages') = Len(messages) + 1 /\ ~isProcessing'
      /\ (frontend = "react" /\ Ran("uploadSettled") /\ ~IsSuccess(event'.outcome))
           => Len(messages') > Len(messages) /\ ~isProcessing'
      /\ (Ran("feedbackSettled")
            /\ ~(event'.outcome.ok /\ event'.outcome.data.status = "success"))
           => Len(alerts') = Len(alerts) + 1
      /\ (Ran("handleSubmit") /\ ~IsBlank(event'.editedAnswer)
            /\ event'.messageId \notin UsedIds)
           => Len(alerts') = Len(alerts) + 1
      /\ (frontend = "static" /\ Ran("chatSettled") /\ ~event'.outcome.ok)
           => Len(chatModelContainer') = Len(chatModelContainer) + 1
      /\ (frontend = "static" /\ Ran("uploadSettled")
            /\ ~(event'.outcome.ok /\ event'.outcome.data.status = "success"))
           => /\ Len(notifications') = Len(notifications) + 1
              /\ notifications'[Len(notifications')].type = "error"
              /\ progressBar'.hidden
    ]_vars

\* The path of a URL: what follows the origin, for a URL of the backend.
Path(url) ==
  IF Len(url) >= Len(API_BASE_URL) /\ SubSeq(url, 1, Len(API_BASE_URL)) = API_BASE_URL
  THEN SubSeq(url, Len(API_BASE_URL) + 1, Len(url))
  ELSE url

\* The texts of the user entries of the conversation of this front end.
UserTexts ==
  IF frontend = "react"
  THEN {messages[k].text : k \in {n \in 1..Len(messages) : messages[n].isUser}}
  ELSE {chatModelContainer[k].text :
          k \in {n \in 1..Len(chatModelContainer) : chatModelContainer[n].type = "question"}}

C23_ShowIsIdempotent ==
  [][ ((Ran("showFeedback") \/ Ran("toggleFeedback")) /\ Visible(event'.id))
        => UNCHANGED feedbackVisibility
    ]_vars

\* C23 as amended: under a plain message the control sets the entry of the
\* id to true, so that using it while the form is shown changes nothing
\* (the form and its text stay); under a qaItem the control flips the
\* entry, an id without an entry counting as not shown: it shows the form
\* when it is not shown and hides it when it is.
C23_ShowIsIdempotent_Amended ==
  [][ /\ Ran("showFeedback")
           => /\ feedbackVisibility' = SetVisibility(event'.id, TRUE)
              /\ Visible(event'.id) => UNCHANGED <<feedbackVisibility, panels>>
      /\ Ran("toggleFeedback")
           => /\ feedbackVisibility' = SetVisibility(event'.id, ~Visible(event'.id))
              /\ event'.id \notin DOMAIN feedbackVisibility
                   => feedbackVisibility'[event'.id] = TRUE
              /\ Visible(event'.id) => feedbackVisibility'[event'.id] = FALSE
    ]_vars

\* C23 witness: the control under a plain message has been used while its
\* form was shown, and the form is still shown.
C23_Witness ==
  /\ event.op = "showFeedback"
  /\ event.shown
  /\ Visible(event.id)

C25_SelectionOnlyRecordsFile ==
  [][ Ran("handleFileChange")
        => /\ selectedFile' = IF event'.files /= <<>>
                                THEN event'.files[1] ELSE selectedFile
           /\ UNCHANGED <<messages, isProcessing, input, requests, pending,
                          feedbackVisibility, panels, alerts>>
    ]_vars

\* C25 witness: a change event without a file arrived while a file was
\* selected, and the file is still selected.
C25_Witness ==
  /\ event.op = "handleFileChange"
  /\ event.files = <<>>
  /\ selectedFile /= Null
  /\ requests = <<>>

\* C26: the widget offers a feedback control only under entries that a
\* submission can resolve: under every qaItem, and under a message of the
\* assistant that has an id and is not the download prompt; never under
\* the welcome message, a message of the user or the download prompt; and
\* the id of every entry with a control resolves to a message or an item.
C26_ControlsOnlyForResolvable ==
  frontend = "react" =>
    /\ \A k \in 1..Len(messages) :
         /\ <<k, 0>> \in PanelSlots(messages)
              => /\ ~messages[k].isUser
                 /\ "id" \in DOMAIN messages[k]
                 /\ ~IsDownloadPrompt(messages[k])
                 /\ messages[k].text /= WelcomeText
         /\ Flag(messages[k], "isQAContainer")
              => \A j \in 1..Len(messages[k].qaItems) : <<k, j>> \in PanelSlots(messages)
    /\ \A s \in PanelSlots(messages) :
         ~NothingFound(Resolve(SlotId(messages, s)))

\* C27: on the static page, when /upload answers with status success, the
\* responses of that upload are displayed (their timers are set, or the
\* notice for an empty list is added) and the success notification is the
\* one notification shown, whatever other uploads were started while the
\* request was in flight.
C27_SuccessIsShownAsSuccess ==
  [][ ( /\ frontend = "static"
        /\ Ran("uploadSettled")
        /\ event'.outcome.ok
        /\ Get(event'.outcome.data, "status", "") = "success" )
        => LET r == Get(event'.outcome.data, "responses", <<>>)
           IN  /\ notifications' = Append(notifications, Notification(ProcessedText, "success"))
               /\ IF Len(r) = 0
                  THEN /\ Len(chatContainer') > 0
                       /\ chatContainer'[Len(chatContainer')].text = EmptyResultText
                  ELSE DisplayTimers(batches', event'.request.seq, r) \subseteq timers'
    ]_vars

\* C28: on the static page, once a new upload has started, no question or
\* response of an earlier upload is added to the results container: a
\* display timer that runs belongs to the latest upload started.
C28_NoEntryOfEarlierUpload ==
  [][ ( /\ frontend = "static"
        /\ Ran("timer")
        /\ event'.timer.type \in {"question", "response"} )
        => \A k \in 1..Len(requests) :
             requests[k].url = "/upload" => k <= event'.timer.upload
    ]_vars

\* The entries displayResponses is to add for the list r, as pairs of type
\* and text: question 1, response 1, question 2, response 2, ...
ExpectedEntries(r) ==
  [k \in 1..(2 * Len(r)) |->
     IF k % 2 = 1 THEN <<"question", r[(k + 1) \div 2].question>>
     ELSE <<"response", r[k \div 2].response>>]

\* The results container, as pairs of type and text.
ShownEntries ==
  [k \in 1..Len(chatContainer) |->
     <<Get(chatContainer[k], "type", "notice"), chatContainer[k].text>>]

\* The display timers that have not run yet.
DisplayPending == {t \in timers : t.type \in {"question", "response"}}

\* The display of the list r is under way: for a list with entries the
\* container holds the first n of the expected entries and the timers of
\* the others are pending, the k-th due after 300(k-1) ms; for an empty
\* list the container holds the empty-result notice alone and no display
\* timer exists.
DisplayUnderWay(r) ==
  IF Len(r) = 0
  THEN /\ ShownEntries = << <<"notice", EmptyResultText>> >>
       /\ DisplayPending = {}
  ELSE \E n \in 0..(2 * Len(r)) :
         /\ ShownEntries = SubSeq(ExpectedEntries(r), 1, n)
         /\ {<<t.delay, t.type, t.text>> : t \in DisplayPending}
              = {<<300 * (k - 1), ExpectedEntries(r)[k][1], ExpectedEntries(r)[k][2]>>
                   : k \in (n + 1)..(2 * Len(r))}

\* The session of the static page has had one upload, which was answered
\* with status success.
SingleUploadSucceeded ==
  /\ frontend = "static"
  /\ Cardinality({k \in 1..Len(requests) : IsUploadRequest(requests[k])}) = 1
  /\ UploadsInFlight = {}
  /\ \E k \in 1..Len(notifications) :
       notifications[k] = Notification(ProcessedText, "success")

\* C29: on the static page, after a single successful upload the results
\* container receives the entries of the response list and nothing else:
\* when the answer arrives the display of its list starts (for an empty or
\* missing list, the empty-result notice alone), at every later moment the
\* container holds a prefix of question 1, response 1, question 2,
\* response 2, ... with the rest still to come, and eventually all 2N
\* entries are there (unless another upload is started first).
C29_DisplayIsCompleteAndOrdered ==
  /\ [][ ( /\ Ran("uploadSettled")
           /\ SingleUploadSucceeded' )
           => \E r \in ResponseLists :
                /\ r = Get(event'.outcome.data, "responses", <<>>)
                /\ DisplayUnderWay(r)'
       ]_vars
  /\ [](SingleUploadSucceeded => \E r \in ResponseLists : DisplayUnderWay(r))
  /\ ( SingleUploadSucceeded ~> (DisplayPending = {} \/ ~SingleUploadSucceeded) )

\* C29 witness: one upload was answered with two pairs and the container
\* shows question 1, response 1, question 2, response 2.
C29_Witness ==
  /\ SingleUploadSucceeded
  /\ DisplayPending = {}
  /\ ShownEntries = << <<"question", "Q1">>, <<"response", "A1">>,
                       <<"question", "Q2">>, <<"response", "A2">> >>

\* The placeholders in the results container: the elements handleFile
\* created with the 'Processing your questions' text.
ThinkingShown ==
  {k \in 1..Len(chatContainer) :
     /\ Get(chatContainer[k], "type", "") = "response"
     /\ chatContainer[k].text = ThinkingText}

\* C30: on the static page the progress bar is visible whenever an upload
\* request is in flight (so the hide timer of an earlier upload does not
\* hide the bar of a later one), a placeholder in the results container
\* always belongs to an upload still in flight, and once no upload is in
\* flight the bar is eventually hidden (or another upload is started).
C30_ProgressBarFollowsUploads ==
  /\ [](frontend = "static"
          => /\ UploadsInFlight /= {} => ~progressBar.hidden
             /\ \A k \in ThinkingShown :
                  \E i \in UploadsInFlight :
                    pending[i].thinkingMessage = chatContainer[k].node)
  /\ ( (frontend = "static" /\ UploadsInFlight = {})
         ~> (progressBar.hidden \/ UploadsInFlight /= {}) )

====
